---------------------------- MODULE Spec2Model ----------------------------
(***************************************************************************)
(* Real-time processing-status synchronisation core of the research        *)
(* automation dashboard:                                                   *)
(*   - the connection manager  (frontend/src/hooks/useWebSocket.ts),       *)
(*   - the job state store     (frontend/src/hooks/useProcessingStore.ts), *)
(*   - the notifier            (components/providers/WebSocketProvider.tsx)*)
(*                                                                         *)
(* A transport (one `new WebSocket`) is identified by its position in the  *)
(* sequence `sockets`.  The handlers connect() installs on a transport     *)
(* stay installed after cleanup() has closed it and dropped the reference, *)
(* so the events of every transport ever created run the same handlers     *)
(* against the shared refs.                                                *)
(***************************************************************************)
EXTENDS Naturals, Sequences, FiniteSets

\* ------------------------------------------------------------------ bounds

\* Transports the model lets the hook create in one run.
MaxSockets == 6

\* Explicit connect() / disconnect() calls the owner makes after the mount.
MaxCalls == 2

\* Largest progress value a delta or a snapshot carries.
MaxProgress == 2

\* Calls of one store operation (getStatus, start, stop) in flight at the
\* same time.
MaxRequests == 1

\* Terminal notifications the model counts.
MaxNotifications == 2

\* Messages the model records per subscriber.
MaxInbox == 2

\* Unparseable frames the model counts.
MaxDropped == 2

\* ------------------------------------------------------- program constants

\* WebSocketProvider passes maxReconnectAttempts: 5 (also the hook's default).
maxReconnectAttempts == 5

\* null for a ref that holds a transport / timer / interval id (ids are >= 1)
NoRef == 0

\* ------------------------------------------------------------------- state

VARIABLES
    phase,                \* "init" | "mounted" | "unmounted": the owner's effect
    isConnected,          \* useState(false)
    connectionStatus,     \* useState('disconnected')
    wsError,              \* useState<string|null>(null), the hook's `error`
    websocketRef,         \* useRef<WebSocket|null>: NoRef or a transport id
    reconnectTimeoutRef,  \* useRef<number|null>: NoRef or a timeout id
    reconnectAttemptsRef, \* useRef(0)
    pingIntervalRef,      \* useRef<number|null>: NoRef or an interval id
    sockets,              \* every transport created: [readyState, failed]
    timeouts,             \* pending setTimeout ids (reconnection timers)
    intervals,            \* active setInterval ids (heartbeat timers)
    subscribed,           \* the provider's callback is in messageCallbacksRef
    isWebSocketConnected, \* store flag set by onConnect / onDisconnect
    lastCall,             \* history: the last explicit lifecycle call
    calls,                \* history: explicit connect()/disconnect() calls
    retries               \* history: reconnection attempts (transports the
                          \* timer's connect() created) since the mount, the
                          \* last explicit connect() or the last drop of an
                          \* established connection

VARIABLES
    processingState,      \* the store's ProcessingState record
    isLoading,            \* the store's isLoading
    storeError,           \* the store's `error`
    requests,             \* request/response calls in flight, in call order
    notifications,        \* notifications.show calls, by title
    raised,               \* history: the terminal notifications raised
                          \* since the last successful startProcessing
    lastLoad,             \* history: the getStatus call whose response the
                          \* step just taken applied, or NoResponse
    lastStart             \* history: the job state the startProcessing
                          \* acknowledged by the step just taken found, or
                          \* NoResponse

VARIABLES
    messageCallbacks,     \* messageCallbacksRef without the provider's
                          \* callback: the other subscribers, in insertion
                          \* order (the iteration order of a Set)
    inbox                 \* history: the messages each of them was called with

VARIABLES
    lastMessage,          \* useState<WebSocketMessage|null>(null): NoMessage
                          \* or a message
    dropped               \* history: frames onmessage failed to parse (its
                          \* console.error calls)

VARIABLES
    srv,                  \* the backend's job: [status, progress]
    wire                  \* events the backend has emitted, not yet delivered

hookVars == <<phase, isConnected, connectionStatus, wsError, websocketRef,
              reconnectTimeoutRef, reconnectAttemptsRef, pingIntervalRef,
              sockets, timeouts, intervals, subscribed,
              lastCall, calls, retries>>

jobVars == <<processingState, isLoading, storeError, requests, notifications,
             raised, lastLoad, lastStart>>

backendVars == <<srv, wire>>

fanoutVars == <<messageCallbacks, inbox>>

frameVars == <<lastMessage, dropped>>

vars == <<hookVars, isWebSocketConnected, jobVars, backendVars, fanoutVars,
          frameVars>>

SocketIds == 1 .. Len(sockets)

\* The hook's refs and state as one record, so that the source's functions
\* (cleanup, connect, the handlers) can be composed as the code composes them.
Hook ==
    [isConnected          |-> isConnected,
     connectionStatus     |-> connectionStatus,
     error                |-> wsError,
     websocketRef         |-> websocketRef,
     reconnectTimeoutRef  |-> reconnectTimeoutRef,
     reconnectAttemptsRef |-> reconnectAttemptsRef,
     pingIntervalRef      |-> pingIntervalRef,
     sockets              |-> sockets,
     timeouts             |-> timeouts,
     intervals            |-> intervals,
     isWebSocketConnected |-> isWebSocketConnected]

SetHook(h) ==
    /\ isConnected' = h.isConnected
    /\ connectionStatus' = h.connectionStatus
    /\ wsError' = h.error
    /\ websocketRef' = h.websocketRef
    /\ reconnectTimeoutRef' = h.reconnectTimeoutRef
    /\ reconnectAttemptsRef' = h.reconnectAttemptsRef
    /\ pingIntervalRef' = h.pingIntervalRef
    /\ sockets' = h.sockets
    /\ timeouts' = h.timeouts
    /\ intervals' = h.intervals
    /\ isWebSocketConnected' = h.isWebSocketConnected

\* ------------------------------------------------------------ the transport

\* WebSocket.close(): a connecting or open transport starts closing; its close
\* event is delivered later, as a task of its own.  Closing a transport that
\* is still connecting fails the connection.  Closing or closed: no-op.
SocketClose(s) ==
    IF s.readyState \in {"CONNECTING", "OPEN"}
    THEN [readyState |-> "CLOSING", failed |-> (s.readyState = "CONNECTING")]
    ELSE s

\* A transport that still has a close event to deliver.
Live(s) == s.readyState # "CLOSED"

\* ------------------------------------------------------ the hook's functions

\* The callbacks consumers other than the provider subscribe; the first one
\* throws on every message.
Subscribers == {"thrower", "logger"}

Throws(c) == c = "thrower"

Range(seq) == {seq[i] : i \in DOMAIN seq}

\* forEach whose callbacks are called without a try/catch of their own: the
\* first throw leaves the loop.
RECURSIVE forEach_Unguarded(_, _, _)
forEach_Unguarded(cbs, message, box) ==
    IF cbs = << >>
    THEN box
    ELSE LET called == [box EXCEPT ![Head(cbs)] = Append(@, message)]
         IN IF Throws(Head(cbs))
            THEN called
            ELSE forEach_Unguarded(Tail(cbs), message, called)

\* messageCallbacksRef.current.forEach(...): useWebSocket.ts 89-95.  Every
\* callback is called with the message; what it throws is caught and logged.
RECURSIVE forEach(_, _, _)
forEach(cbs, message, box) ==
    IF cbs = << >>
    THEN box
    ELSE forEach(Tail(cbs), message,
                 [box EXCEPT ![Head(cbs)] = Append(@, message)])

\* subscribe(callback): useWebSocket.ts 149-151.  Set.add of a member
\* changes nothing.
subscribe(cbs, c) == IF c \in Range(cbs) THEN cbs ELSE Append(cbs, c)

\* The function subscribe returns: useWebSocket.ts 153-155.
unsubscribe(cbs, c) == SelectSeq(cbs, LAMBDA x : x # c)

\* connect() that does not tear down the previous transport.
connect_NoCleanup(h) ==
    IF /\ h.websocketRef # NoRef
       /\ h.sockets[h.websocketRef].readyState = "OPEN"
    THEN h
    ELSE [h EXCEPT !.connectionStatus = "connecting",
                   !.error = "null",
                   !.sockets = Append(@, [readyState |-> "CONNECTING",
                                          failed |-> FALSE]),
                   !.websocketRef = Len(h.sockets) + 1]

\* cleanup(): useWebSocket.ts 37-50
cleanup(h) ==
    LET h1 == IF h.reconnectTimeoutRef # NoRef
              THEN [h EXCEPT !.timeouts = @ \ {h.reconnectTimeoutRef},
                             !.reconnectTimeoutRef = NoRef]
              ELSE h
        h2 == IF h1.pingIntervalRef # NoRef
              THEN [h1 EXCEPT !.intervals = @ \ {h1.pingIntervalRef},
                              !.pingIntervalRef = NoRef]
              ELSE h1
    IN IF h2.websocketRef # NoRef
       THEN [h2 EXCEPT !.sockets[h2.websocketRef] = SocketClose(@),
                       !.websocketRef = NoRef]
       ELSE h2

\* connect(): useWebSocket.ts 52-66.  The URL is the provider's constant
\* path, so `new WebSocket` does not throw and the catch branch is not taken.
connect(h) ==
    IF /\ h.websocketRef # NoRef
       /\ h.sockets[h.websocketRef].readyState = "OPEN"
    THEN h
    ELSE LET c == cleanup(h)
         IN [c EXCEPT !.connectionStatus = "connecting",
                      !.error = "null",
                      !.sockets = Append(@, [readyState |-> "CONNECTING",
                                             failed |-> FALSE]),
                      !.websocketRef = Len(c.sockets) + 1]

\* Whether connect() would create a transport.
ConnectOpens(h) ==
    ~ (/\ h.websocketRef # NoRef
       /\ h.sockets[h.websocketRef].readyState = "OPEN")

\* onopen that forgets `reconnectAttemptsRef.current = 0`.
onopen_NoReset(h, t) ==
    [h EXCEPT !.isConnected = TRUE,
              !.connectionStatus = "connected",
              !.error = "null",
              !.isWebSocketConnected = TRUE,
              !.intervals = @ \cup {t},
              !.pingIntervalRef = t]

\* websocket.onopen of transport t: useWebSocket.ts 68-81.  The interval it
\* starts is named after the transport whose open event created it.
onopen(h, t) ==
    [h EXCEPT !.isConnected = TRUE,
              !.connectionStatus = "connected",
              !.error = "null",
              !.reconnectAttemptsRef = 0,
              !.isWebSocketConnected = TRUE,
              !.intervals = @ \cup {t},
              !.pingIntervalRef = t]

\* onclose that compares with <= where the code compares with <.
onclose_OffByOne(h, t) ==
    LET h1 == [h EXCEPT !.isConnected = FALSE,
                        !.connectionStatus = "disconnected",
                        !.isWebSocketConnected = FALSE,
                        !.intervals = @ \ {h.pingIntervalRef},
                        !.pingIntervalRef = NoRef]
    IN IF h1.reconnectAttemptsRef <= maxReconnectAttempts
       THEN [h1 EXCEPT !.reconnectAttemptsRef = @ + 1,
                       !.timeouts = @ \cup {t},
                       !.reconnectTimeoutRef = t]
       ELSE h1

\* websocket.onclose of transport t: useWebSocket.ts 101-119.  The timeout it
\* schedules is named after the transport whose close event created it.
onclose(h, t) ==
    LET h1 == [h EXCEPT !.isConnected = FALSE,
                        !.connectionStatus = "disconnected",
                        !.isWebSocketConnected = FALSE]
        h2 == IF h1.pingIntervalRef # NoRef
              THEN [h1 EXCEPT !.intervals = @ \ {h1.pingIntervalRef},
                              !.pingIntervalRef = NoRef]
              ELSE h1
    IN IF h2.reconnectAttemptsRef < maxReconnectAttempts
       THEN [h2 EXCEPT !.reconnectAttemptsRef = @ + 1,
                       !.timeouts = @ \cup {t},
                       !.reconnectTimeoutRef = t]
       ELSE h2

\* websocket.onerror: useWebSocket.ts 121-125
onerror(h) ==
    [h EXCEPT !.connectionStatus = "error",
              !.error = "WebSocket connection error"]

\* disconnect(): useWebSocket.ts 134-138
disconnect(h) ==
    LET c == cleanup(h)
    IN [c EXCEPT !.isConnected = FALSE,
                 !.connectionStatus = "disconnected"]

\* --------------------------------------------------------- the job store

\* null and undefined, as values of a field
Null == "null"
Undefined == "undefined"

\* A request that has not been answered.
NoResponse == [none |-> TRUE]

\* defaultProcessingState: useProcessingStore.ts 75-85
defaultProcessingState ==
    [status        |-> "idle",
     current_step  |-> "",
     progress      |-> 0,
     total_steps   |-> 0,
     start_time    |-> Null,
     end_time      |-> Null,
     error_message |-> Null,
     results       |-> "{}",
     logs          |-> << >>]

\* { ...base, ...delta } on the fields of ProcessingState: a field the
\* delta carries replaces the base's, a field it lacks is kept.
Merge(base, delta) ==
    [f \in DOMAIN base |-> IF f \in DOMAIN delta THEN delta[f] ELSE base[f]]

\* lastMessage before the first message.
NoMessage == [null |-> TRUE]

\* A message without a `data` member.
NoData == [nodata |-> TRUE]

\* What the stream sends as data of status_update / processing_update:
\* partial ProcessingState records.
UpdateData ==
    {[progress |-> p] : p \in 1 .. MaxProgress}
    \cup {[status |-> "running", current_step |-> "fetch"]}
    \cup {[progress |-> MaxProgress, total_steps |-> 10,
           current_step |-> "fetch"]}
    \cup {[logs |-> <<"fetching">>]}

\* ... of processing_complete
CompleteData ==
    {[results |-> "{summaries_generated:5}"],
     [results |-> "{summaries_generated:5}", end_time |-> "t"]}

\* ... of processing_error: {state?: partial ProcessingState, error?: string}
ErrorData == {[error |-> "IMAP timeout"]}

Messages ==
    [type : {"status_update", "processing_update"},
     data : UpdateData \cup {NoData}]
    \cup [type : {"processing_complete"}, data : CompleteData \cup {NoData}]
    \cup [type : {"processing_error"}, data : ErrorData \cup {NoData}]
    \cup [type : {"pong"}, data : {NoData}]

\* What getStatus() answers: a ProcessingState, possibly without the fields
\* the backend leaves out.
Snapshots ==
    {[status |-> "idle"],
     [status |-> "running", progress |-> 1, current_step |-> "fetch"],
     [status |-> "completed", progress |-> MaxProgress, end_time |-> "t"]}

\* The part of the store the stream's handler writes.
Store == [processingState |-> processingState, error |-> storeError]

\* A handler whose processing_complete branch also counts a step.
handleWebSocketMessage_CountingComplete(st, message) ==
    LET data == message.data
        ps == st.processingState
    IN CASE message.type \in {"status_update", "processing_update"} ->
              IF data # NoData
              THEN [st EXCEPT !.processingState = Merge(ps, data)]
              ELSE st
         [] message.type = "processing_complete" ->
              IF data # NoData
              THEN [st EXCEPT !.processingState =
                        [Merge(ps, data) EXCEPT
                            !.status = "completed",
                            !.progress = IF @ < MaxProgress
                                         THEN @ + 1 ELSE @]]
              ELSE st
         [] message.type = "processing_error" ->
              IF data # NoData
              THEN LET err == IF "error" \in DOMAIN data
                              THEN data.error ELSE Undefined
                       sub == IF "state" \in DOMAIN data
                              THEN data.state ELSE << >>
                   IN [processingState |->
                           [Merge(ps, sub) EXCEPT !.status = "error",
                                                  !.error_message = err],
                       error |-> err]
              ELSE st
         [] OTHER -> st

\* handleWebSocketMessage: useProcessingStore.ts 184-236.  loadStatistics()
\* only writes `stats`, which the model leaves out.
handleWebSocketMessage(st, message) ==
    LET data == message.data
        ps == st.processingState
    IN CASE message.type \in {"status_update", "processing_update"} ->
              IF data # NoData
              THEN [st EXCEPT !.processingState = Merge(ps, data)]
              ELSE st
         [] message.type = "processing_complete" ->
              IF data # NoData
              THEN [st EXCEPT !.processingState =
                        [Merge(ps, data) EXCEPT !.status = "completed"]]
              ELSE st
         [] message.type = "processing_error" ->
              IF data # NoData
              THEN LET err == IF "error" \in DOMAIN data
                              THEN data.error ELSE Undefined
                       sub == IF "state" \in DOMAIN data
                              THEN data.state ELSE << >>
                   IN [processingState |->
                           [Merge(ps, sub) EXCEPT !.status = "error",
                                                  !.error_message = err],
                       error |-> err]
              ELSE st
         [] OTHER -> st

\* The provider's subscriber after handleWebSocketMessage:
\* WebSocketProvider.tsx 52-69.
notify(n, message) ==
    CASE message.type = "processing_complete" ->
             [n EXCEPT !.complete = @ + 1]
      [] message.type = "processing_error" ->
             [n EXCEPT !.failed = @ + 1]
      [] OTHER -> n

\* Variants of loadApply: the response merged into the current state; the
\* response dropped.
loadApply_Merging(ps, status) == Merge(ps, status)

loadApply_DefaultsOnly(ps, status) == defaultProcessingState

\* loadProcessingStatus, on the response: useProcessingStore.ts 103-111
loadApply(ps, status) == Merge(defaultProcessingState, status)

\* startProcessing without `logs: []`.
startApply_KeepsLogs(ps) ==
    [ps EXCEPT !.status = "running",
               !.start_time = "now",
               !.end_time = Null,
               !.error_message = Null,
               !.progress = 0,
               !.current_step = "Starting..."]

\* startProcessing, on the acknowledgement: useProcessingStore.ts 147-159
startApply(ps) ==
    [ps EXCEPT !.status = "running",
               !.start_time = "now",
               !.end_time = Null,
               !.error_message = Null,
               !.progress = 0,
               !.current_step = "Starting...",
               !.logs = << >>]

RemoveAt(seq, i) == SubSeq(seq, 1, i - 1) \o SubSeq(seq, i + 1, Len(seq))

\* ------------------------------------------------------------------ actions

Init ==
    /\ phase = "init"
    /\ isConnected = FALSE
    /\ connectionStatus = "disconnected"
    /\ wsError = "null"
    /\ websocketRef = NoRef
    /\ reconnectTimeoutRef = NoRef
    /\ reconnectAttemptsRef = 0
    /\ pingIntervalRef = NoRef
    /\ sockets = << >>
    /\ timeouts = {}
    /\ intervals = {}
    /\ subscribed = FALSE
    /\ isWebSocketConnected = FALSE
    /\ lastCall = [op |-> "none", live |-> FALSE, timer |-> FALSE]
    /\ calls = 0
    /\ retries = 0
    /\ processingState = defaultProcessingState
    /\ isLoading = FALSE
    /\ storeError = "null"
    /\ requests = << >>
    /\ notifications = [complete |-> 0, failed |-> 0]
    /\ raised = {}
    /\ lastLoad = NoResponse
    /\ lastStart = NoResponse
    /\ messageCallbacks = << >>
    /\ lastMessage = NoMessage
    /\ dropped = 0
    /\ inbox = [c \in Subscribers |-> << >>]
    /\ srv = [status |-> "idle", progress |-> 0]
    /\ wire = << >>

\* What an explicit call finds: a transport of the hook connecting or open,
\* a reconnection timer pending.
CurrentLive ==
    /\ websocketRef # NoRef
    /\ sockets[websocketRef].readyState \in {"CONNECTING", "OPEN"}

TimerPending == timeouts # {}

Call(op) == [op |-> op, live |-> CurrentLive, timer |-> TimerPending]

\* The effect of useWebSocket (159-165) runs connect(); the provider's effect
\* (WebSocketProvider.tsx 48-73) subscribes its callback.
Mount ==
    /\ phase = "init"
    /\ phase' = "mounted"
    /\ SetHook(connect(Hook))
    /\ subscribed' = TRUE
    /\ lastCall' = Call("connect")
    /\ UNCHANGED <<calls, retries, jobVars, backendVars,
                   fanoutVars, frameVars>>

\* connect(), called by the owner through the hook's return value.
Connect ==
    /\ phase = "mounted"
    /\ calls < MaxCalls
    /\ ConnectOpens(Hook) => Len(sockets) < MaxSockets
    /\ SetHook(connect(Hook))
    /\ lastCall' = Call("connect")
    /\ calls' = calls + 1
    /\ retries' = IF ConnectOpens(Hook) THEN 0 ELSE retries
    /\ UNCHANGED <<phase, subscribed, jobVars, backendVars,
                   fanoutVars, frameVars>>

\* disconnect(), called by the owner through the hook's return value.
Disconnect ==
    /\ phase = "mounted"
    /\ calls < MaxCalls
    /\ SetHook(disconnect(Hook))
    /\ lastCall' = Call("disconnect")
    /\ calls' = calls + 1
    /\ UNCHANGED <<phase, subscribed, retries, jobVars, backendVars,
                   fanoutVars, frameVars>>

\* The effects' cleanups on unmount: cleanup() (162-164) and unsubscribe.
Unmount ==
    /\ phase = "mounted"
    /\ phase' = "unmounted"
    /\ SetHook(cleanup(Hook))
    /\ subscribed' = FALSE
    /\ lastCall' = Call("unmount")
    /\ UNCHANGED <<calls, retries, jobVars, backendVars,
                   fanoutVars, frameVars>>

\* The open event of transport t.
WsOpen(t) ==
    /\ sockets[t].readyState = "CONNECTING"
    /\ SetHook(onopen([Hook EXCEPT !.sockets[t].readyState = "OPEN"], t))
    /\ UNCHANGED <<phase, subscribed, lastCall, calls, retries, jobVars,
                   backendVars,
                   fanoutVars, frameVars>>

\* The close of transport t, one task: readyState becomes CLOSED, an error
\* event is fired first when the connection failed, then the close event.
\* A connection that was never established always fails; an established one
\* ends cleanly or not.
WsClose(t, failed) ==
    /\ Live(sockets[t])
    /\ (sockets[t].readyState = "CONNECTING" \/ sockets[t].failed) => failed
    /\ LET h0 == [Hook EXCEPT !.sockets[t] = [readyState |-> "CLOSED",
                                              failed |-> FALSE]]
           h1 == IF failed THEN onerror(h0) ELSE h0
       IN SetHook(onclose(h1, t))
    /\ retries' = IF sockets[t].readyState = "OPEN" THEN 0 ELSE retries
    /\ UNCHANGED <<phase, subscribed, lastCall, calls, jobVars, backendVars,
                   fanoutVars, frameVars>>

\* The reconnection timer i fires: useWebSocket.ts 115-117.
TimerFire(i) ==
    /\ i \in timeouts
    /\ ConnectOpens(Hook) => Len(sockets) < MaxSockets
    /\ SetHook(connect([Hook EXCEPT !.timeouts = @ \ {i}]))
    /\ retries' = IF ConnectOpens(Hook) THEN retries + 1 ELSE retries
    /\ UNCHANGED <<phase, subscribed, lastCall, calls, jobVars, backendVars,
                   fanoutVars, frameVars>>

Next ==
    \/ Mount
    \/ Connect
    \/ Disconnect
    \/ Unmount
    \/ \E t \in SocketIds : WsOpen(t)
    \/ \E t \in SocketIds, failed \in BOOLEAN : WsClose(t, failed)
    \/ \E i \in timeouts : TimerFire(i)

Spec == Init /\ [][Next]_vars

\* ------------------------------------------------- the job store's actions

\* A call in flight.  History: `afterComplete`, the call was made after the
\* notifier had handled a processing_complete of the current run;
\* `overtaken`, what deltas applied after the response was produced have set:
\* "status" (a terminal status), "progress" (more than the response carries).
Request(kind) ==
    [kind |-> kind, response |-> NoResponse, overtaken |-> {},
     afterComplete |-> ("complete" \in raised)]

ProgressOf(status) ==
    IF "progress" \in DOMAIN status
    THEN status.progress ELSE defaultProcessingState.progress

StatusOf(status) ==
    IF "status" \in DOMAIN status
    THEN status.status ELSE defaultProcessingState.status

Terminal == {"completed", "error"}

\* A getStatus response is overtaken from the moment it is produced, a start
\* or stop call from the moment it is made.
Overtake(reqs, message) ==
    [i \in DOMAIN reqs |->
        IF \/ reqs[i].kind = "getStatus" /\ reqs[i].response = NoResponse
           \/ message.data = NoData
        THEN reqs[i]
        ELSE [reqs[i] EXCEPT !.overtaken = @
                \cup (IF message.type \in {"processing_complete",
                                           "processing_error"}
                      THEN {"status"} ELSE {})
                \cup (IF /\ message.type \in {"status_update",
                                               "processing_update"}
                         /\ "progress" \in DOMAIN message.data
                         /\ message.data.progress > ProgressOf(reqs[i].response)
                      THEN {"progress"} ELSE {})]]

\* A parsed message arrives on transport t: websocket.onmessage
\* (useWebSocket.ts 83-99) calls every subscriber; the provider's
\* (WebSocketProvider.tsx 49-70) hands it to the store, then notifies.
OnMessage(t, message) ==
    /\ sockets[t].readyState = "OPEN"
    /\ subscribed
    /\ notify(notifications, message).complete <= MaxNotifications
    /\ notify(notifications, message).failed <= MaxNotifications
    /\ LET st == handleWebSocketMessage(Store, message)
       IN /\ processingState' = st.processingState
          /\ storeError' = st.error
    /\ notifications' = notify(notifications, message)
    /\ raised' = CASE message.type = "processing_complete" ->
                            raised \cup {"complete"}
                   [] message.type = "processing_error" ->
                            raised \cup {"failed"}
                   [] OTHER -> raised
    /\ requests' = Overtake(requests, message)
    /\ lastLoad' = NoResponse
    /\ lastStart' = NoResponse
    /\ \A c \in Range(messageCallbacks) : Len(inbox[c]) < MaxInbox
    /\ inbox' = forEach(messageCallbacks, message, inbox)
    /\ lastMessage' = message
    /\ UNCHANGED <<hookVars, isWebSocketConnected, isLoading,
                   messageCallbacks, dropped>>

\* The stream delivers any message.
WsMessage(t, message) ==
    /\ OnMessage(t, message)
    /\ UNCHANGED backendVars

\* The text of a frame, as a sequence of tokens: a JSON object is its value
\* between braces.
JSONstringify(message) == <<"{", message, "}">>

ParseError == [SyntaxError |-> TRUE]

\* JSON.parse lenient enough to take any text for a pong.
JSONparse_Lenient(text) ==
    IF Len(text) = 3 /\ text[1] = "{" /\ text[3] = "}"
    THEN text[2]
    ELSE [type |-> "pong", data |-> NoData]

\* JSON.parse(event.data): useWebSocket.ts 85.  Throws on a text that is not
\* a complete JSON value.
JSONparse(text) ==
    IF Len(text) = 3 /\ text[1] = "{" /\ text[3] = "}"
    THEN text[2]
    ELSE ParseError

\* Calls of one operation in flight.
InFlight(kind) ==
    Cardinality({i \in DOMAIN requests : requests[i].kind = kind})

\* loadProcessingStatus up to the await: useProcessingStore.ts 98-102
LoadCall ==
    /\ InFlight("getStatus") < MaxRequests
    /\ isLoading' = TRUE
    /\ storeError' = Null
    /\ requests' = Append(requests, Request("getStatus"))
    /\ lastLoad' = NoResponse
    /\ lastStart' = NoResponse
    /\ UNCHANGED <<hookVars, backendVars, fanoutVars, frameVars,
                   isWebSocketConnected, processingState,
                   notifications, raised>>

\* The backend produces the response to a getStatus request.
ServerAnswers(i, status) ==
    /\ requests[i].kind = "getStatus"
    /\ requests[i].response = NoResponse
    /\ requests' = [requests EXCEPT ![i].response = status]
    /\ UNCHANGED <<hookVars, backendVars, fanoutVars, frameVars,
                   isWebSocketConnected, processingState, isLoading,
                   storeError, notifications, raised, lastLoad, lastStart>>

\* loadProcessingStatus after the await: useProcessingStore.ts 103-111
LoadResolve(i) ==
    /\ requests[i].kind = "getStatus"
    /\ requests[i].response # NoResponse
    /\ processingState' = loadApply(processingState, requests[i].response)
    /\ isLoading' = FALSE
    /\ requests' = RemoveAt(requests, i)
    /\ lastLoad' = requests[i]
    /\ lastStart' = NoResponse
    /\ UNCHANGED <<hookVars, backendVars, fanoutVars, frameVars,
                   isWebSocketConnected, storeError,
                   notifications, raised>>

\* Reject that also reports the failure as a connection error.
Reject_AsConnectionError(i) ==
    /\ requests[i].response = NoResponse
    /\ storeError' =
          CASE requests[i].kind = "getStatus" ->
                   "Failed to load processing status"
            [] requests[i].kind = "start" -> "Failed to start processing"
            [] requests[i].kind = "stop" -> "Failed to stop processing"
    /\ isLoading' = FALSE
    /\ requests' = RemoveAt(requests, i)
    /\ connectionStatus' = "error"
    /\ wsError' = storeError'
    /\ UNCHANGED <<phase, isConnected, websocketRef, reconnectTimeoutRef,
                   reconnectAttemptsRef, pingIntervalRef, sockets, timeouts,
                   intervals, subscribed, lastCall, calls, retries,
                   backendVars, fanoutVars, frameVars,
                   isWebSocketConnected, processingState,
                   notifications, raised, lastLoad, lastStart>>

\* Reject that also puts the job state back to its defaults.
Reject_ResetsState(i) ==
    /\ requests[i].response = NoResponse
    /\ storeError' =
          CASE requests[i].kind = "getStatus" ->
                   "Failed to load processing status"
            [] requests[i].kind = "start" -> "Failed to start processing"
            [] requests[i].kind = "stop" -> "Failed to stop processing"
    /\ isLoading' = FALSE
    /\ requests' = RemoveAt(requests, i)
    /\ processingState' = defaultProcessingState
    /\ UNCHANGED <<hookVars, backendVars, fanoutVars, frameVars,
                   isWebSocketConnected,
                   notifications, raised, lastLoad, lastStart>>

\* The request of call i fails (catch branches: 112-117, 160-166, 174-180).
Reject(i) ==
    /\ requests[i].response = NoResponse
    /\ storeError' =
          CASE requests[i].kind = "getStatus" ->
                   "Failed to load processing status"
            [] requests[i].kind = "start" -> "Failed to start processing"
            [] requests[i].kind = "stop" -> "Failed to stop processing"
    /\ isLoading' = FALSE
    /\ requests' = RemoveAt(requests, i)
    /\ UNCHANGED <<hookVars, backendVars, fanoutVars, frameVars,
                   isWebSocketConnected, processingState,
                   notifications, raised, lastLoad, lastStart>>

\* startProcessing up to the await: useProcessingStore.ts 142-145
StartCall ==
    /\ InFlight("start") < MaxRequests
    /\ isLoading' = TRUE
    /\ storeError' = Null
    /\ requests' = Append(requests, Request("start"))
    /\ lastStart' = NoResponse
    /\ UNCHANGED <<hookVars, backendVars, fanoutVars, frameVars,
                   isWebSocketConnected, processingState,
                   notifications, raised, lastLoad>>

\* startProcessing after the await: useProcessingStore.ts 147-159
StartResolve(i) ==
    /\ requests[i].kind = "start"
    /\ processingState' = startApply(processingState)
    /\ isLoading' = FALSE
    /\ requests' = RemoveAt(requests, i)
    /\ raised' = {}
    /\ lastStart' = processingState
    /\ UNCHANGED <<hookVars, backendVars, fanoutVars, frameVars,
                   isWebSocketConnected, storeError,
                   notifications, lastLoad>>

\* stopProcessing up to the await: useProcessingStore.ts 169-172
StopCall ==
    /\ InFlight("stop") < MaxRequests
    /\ isLoading' = TRUE
    /\ storeError' = Null
    /\ requests' = Append(requests, Request("stop"))
    /\ UNCHANGED <<hookVars, backendVars, fanoutVars, frameVars,
                   isWebSocketConnected, processingState,
                   notifications, raised, lastLoad, lastStart>>

\* stopProcessing after the await: useProcessingStore.ts 173
StopResolve(i) ==
    /\ requests[i].kind = "stop"
    /\ isLoading' = FALSE
    /\ requests' = RemoveAt(requests, i)
    /\ UNCHANGED <<hookVars, backendVars, fanoutVars, frameVars,
                   isWebSocketConnected, processingState,
                   storeError, notifications, raised, lastLoad, lastStart>>

\* clearError: useProcessingStore.ts 244-246
ClearError ==
    /\ storeError' = Null
    /\ UNCHANGED <<hookVars, backendVars, fanoutVars, frameVars,
                   isWebSocketConnected, processingState, isLoading,
                   requests, notifications, raised, lastLoad, lastStart>>

\* reset: useProcessingStore.ts 249-257
Reset ==
    /\ processingState' = defaultProcessingState
    /\ isLoading' = FALSE
    /\ storeError' = Null
    /\ isWebSocketConnected' = FALSE
    /\ UNCHANGED <<hookVars, backendVars, fanoutVars, frameVars, requests, notifications,
                   raised, lastLoad, lastStart>>

\* Every payload as a status_update; processing_update, which the store
\* handles in the same branch, with the progress payloads only.
JobMessages ==
    {m \in Messages :
        m.type = "processing_update" => DOMAIN m.data = {"progress"}}

\* The job state machine and the notifier on an established connection: the
\* stream sends any message in any order, the owner starts runs and resets.
NextJob ==
    \/ Mount
    \/ \E t \in SocketIds : WsOpen(t)
    \/ \E t \in SocketIds, message \in JobMessages : WsMessage(t, message)
    \/ StartCall
    \/ \E i \in DOMAIN requests : StartResolve(i)
    \/ \E i \in DOMAIN requests : Reject(i)
    \/ ClearError
    \/ Reset

SpecJob == Init /\ [][NextJob]_vars

\* The deltas a run is made of: logs, progress, a completion with its end
\* time, a failure.
StartMessages ==
    {m \in Messages :
        \/ m.type = "status_update"
             /\ (DOMAIN m.data = {"progress"} \/ DOMAIN m.data = {"logs"})
        \/ m.type = "processing_complete" /\ "end_time" \in DOMAIN m.data
        \/ m.type = "processing_error" /\ m.data # NoData}

\* Runs started against the stream: deltas arrive in any order while a
\* start request is in flight.
NextStart ==
    \/ Mount
    \/ \E t \in SocketIds : WsOpen(t)
    \/ \E t \in SocketIds, message \in StartMessages : WsMessage(t, message)
    \/ StartCall
    \/ \E i \in DOMAIN requests : StartResolve(i)

SpecStart == Init /\ [][NextStart]_vars

\* The deltas that write status, progress, results and error_message.
SyncMessages ==
    {m \in Messages :
        \/ m.type = "status_update" /\ DOMAIN m.data = {"progress"}
        \/ m.type = "processing_complete" /\ DOMAIN m.data = {"results"}
        \/ m.type = "processing_error" /\ m.data # NoData}

\* Snapshot loads against the stream: deltas arrive in any order while
\* getStatus requests are in flight, the backend answers any snapshot.
NextSync ==
    \/ Mount
    \/ \E t \in SocketIds : WsOpen(t)
    \/ \E t \in SocketIds, message \in SyncMessages : WsMessage(t, message)
    \/ LoadCall
    \/ \E i \in DOMAIN requests, status \in Snapshots : ServerAnswers(i, status)
    \/ \E i \in DOMAIN requests : LoadResolve(i)
    \/ \E i \in DOMAIN requests : Reject(i)

SpecSync == Init /\ [][NextSync]_vars

\* The failure of a run and its progress.
CallMessages ==
    {m \in Messages :
        \/ m.type = "status_update" /\ DOMAIN m.data = {"progress"}
        \/ m.type = "processing_error" /\ m.data # NoData}

\* The store's three calls, overlapping, succeeding or failing, against the
\* stream.
NextCalls ==
    \/ Mount
    \/ \E t \in SocketIds : WsOpen(t)
    \/ \E t \in SocketIds, message \in CallMessages : WsMessage(t, message)
    \/ LoadCall
    \/ StartCall
    \/ StopCall
    \/ \E i \in DOMAIN requests, status \in Snapshots : ServerAnswers(i, status)
    \/ \E i \in DOMAIN requests : LoadResolve(i)
    \/ \E i \in DOMAIN requests : StartResolve(i)
    \/ \E i \in DOMAIN requests : StopResolve(i)
    \/ \E i \in DOMAIN requests : Reject(i)

SpecCalls == Init /\ [][NextCalls]_vars

\* The deltas a failing call is interleaved with: one step of progress.
FailureMessages ==
    {m \in Messages : m.type = "status_update" /\ m.data = [progress |-> 1]}

\* The store's three calls, each succeeding or failing, against one delta of
\* the stream.
NextFailures ==
    \/ Mount
    \/ \E t \in SocketIds : WsOpen(t)
    \/ \E t \in SocketIds, message \in FailureMessages : WsMessage(t, message)
    \/ LoadCall
    \/ StartCall
    \/ StopCall
    \/ \E i \in DOMAIN requests :
          ServerAnswers(i, [status |-> "running", progress |-> 1,
                            current_step |-> "fetch"])
    \/ \E i \in DOMAIN requests : LoadResolve(i)
    \/ \E i \in DOMAIN requests : StartResolve(i)
    \/ \E i \in DOMAIN requests : StopResolve(i)
    \/ \E i \in DOMAIN requests : Reject(i)

SpecFailures == Init /\ [][NextFailures]_vars

\* The two error channels: a connection that opens, drops, fails and is
\* retried, a run that fails, a call that fails.
NextChannels ==
    \/ Mount
    \/ \E t \in SocketIds : WsOpen(t)
    \/ \E t \in SocketIds, failed \in BOOLEAN : WsClose(t, failed)
    \/ \E i \in timeouts : TimerFire(i)
    \/ \E t \in SocketIds, message \in CallMessages : WsMessage(t, message)
    \/ LoadCall
    \/ \E i \in DOMAIN requests : Reject(i)

SpecChannels == Init /\ [][NextChannels]_vars

\* --------------------------------------------------------- the subscribers

\* A consumer subscribes callback c through the hook's return value.
Subscribe(c) ==
    /\ phase = "mounted"
    /\ messageCallbacks' = subscribe(messageCallbacks, c)
    /\ UNCHANGED <<hookVars, isWebSocketConnected, jobVars, backendVars,
                   inbox, frameVars>>

\* ... and calls the function subscribe returned.
Unsubscribe(c) ==
    /\ c \in Range(messageCallbacks)
    /\ messageCallbacks' = unsubscribe(messageCallbacks, c)
    /\ UNCHANGED <<hookVars, isWebSocketConnected, jobVars, backendVars,
                   inbox, frameVars>>

FanoutMessages ==
    {m \in Messages :
        \/ m.type = "pong"
        \/ m.type = "status_update" /\ DOMAIN m.data = {"progress"}}

\* Several subscribers on one stream.
NextFanout ==
    \/ Mount
    \/ \E t \in SocketIds : WsOpen(t)
    \/ \E c \in Subscribers : Subscribe(c)
    \/ \E c \in Subscribers : Unsubscribe(c)
    \/ \E t \in SocketIds, message \in FanoutMessages : WsMessage(t, message)

SpecFanout == Init /\ [][NextFanout]_vars

\* The frames of the stream: the messages, the bare word the heartbeat may
\* be answered with, and a message cut short.
Frames ==
    {JSONstringify(m) : m \in FanoutMessages}
    \cup {<<"pong">>}
    \cup {<<"{", [type |-> "pong", data |-> NoData]>>}

\* A text frame arrives on transport t: websocket.onmessage, useWebSocket.ts
\* 83-99, with the catch of a JSON.parse that throws (96-98).
WsFrame(t, text) ==
    IF JSONparse(text) # ParseError
    THEN WsMessage(t, JSONparse(text))
    ELSE /\ sockets[t].readyState = "OPEN"
         /\ dropped < MaxDropped
         /\ dropped' = dropped + 1
         /\ UNCHANGED <<hookVars, isWebSocketConnected, jobVars, backendVars,
                        fanoutVars, lastMessage>>

\* Text frames, some of them unparseable, on one stream.
NextFrames ==
    \/ Mount
    \/ \E t \in SocketIds : WsOpen(t)
    \/ \E c \in Subscribers : Subscribe(c)
    \/ \E t \in SocketIds, text \in Frames : WsFrame(t, text)

SpecFrames == Init /\ [][NextFrames]_vars

\* ------------------------------------------------------------ the backend
\* The job executor and the status endpoint, after the wire protocol: one
\* run, whose progress only grows, every change streamed as an event in the
\* order it happened, the status endpoint answering the job's current state.

Emit(message) == wire' = Append(wire, message)

BackendStart ==
    /\ srv.status = "idle"
    /\ srv' = [status |-> "running", progress |-> 0]
    /\ Emit([type |-> "status_update",
             data |-> [status |-> "running", current_step |-> "fetch"]])
    /\ UNCHANGED <<hookVars, isWebSocketConnected, jobVars, fanoutVars,
                   frameVars>>

BackendStep ==
    /\ srv.status = "running"
    /\ srv.progress < MaxProgress
    /\ srv' = [srv EXCEPT !.progress = @ + 1]
    /\ Emit([type |-> "status_update",
             data |-> [progress |-> srv.progress + 1]])
    /\ UNCHANGED <<hookVars, isWebSocketConnected, jobVars, fanoutVars,
                   frameVars>>

BackendComplete ==
    /\ srv.status = "running"
    /\ srv' = [srv EXCEPT !.status = "completed"]
    /\ Emit([type |-> "processing_complete",
             data |-> [results |-> "{summaries_generated:5}"]])
    /\ UNCHANGED <<hookVars, isWebSocketConnected, jobVars, fanoutVars,
                   frameVars>>

BackendFail ==
    /\ srv.status = "running"
    /\ srv' = [srv EXCEPT !.status = "error"]
    /\ Emit([type |-> "processing_error",
             data |-> [error |-> "IMAP timeout"]])
    /\ UNCHANGED <<hookVars, isWebSocketConnected, jobVars, fanoutVars,
                   frameVars>>

\* The oldest undelivered event arrives on transport t.
Deliver(t) ==
    /\ wire # << >>
    /\ OnMessage(t, Head(wire))
    /\ wire' = Tail(wire)
    /\ UNCHANGED srv

\* The status endpoint answers request i.
BackendAnswers(i) ==
    /\ ServerAnswers(i, [status |-> srv.status, progress |-> srv.progress])

\* The client against the backend: the stream carries the backend's events,
\* getStatus is answered with the backend's state.
NextServer ==
    \/ Mount
    \/ \E t \in SocketIds : WsOpen(t)
    \/ BackendStart
    \/ BackendStep
    \/ BackendComplete
    \/ BackendFail
    \/ \E t \in SocketIds : Deliver(t)
    \/ LoadCall
    \/ \E i \in DOMAIN requests : BackendAnswers(i)
    \/ \E i \in DOMAIN requests : LoadResolve(i)

SpecServer == Init /\ [][NextServer]_vars

\* =================================================================== claims
\* The connection manager (Spec).

\* A run in which, after the mount, only the transport and the timers act:
\* the owner is alive and has made no explicit connect() / disconnect() call.
CleanRun == calls = 0 /\ phase = "mounted"

CurrentIs(state) ==
    /\ websocketRef # NoRef
    /\ sockets[websocketRef].readyState = state

\* C1: after disconnect() was called while the transport was connecting or
\* open, and until the next explicit call, no reconnection timer is scheduled,
\* no transport is created and connectionStatus stays 'disconnected'.
C1_NoReconnectAfterDisconnect ==
    [][(lastCall.op = "disconnect" /\ lastCall.live /\ lastCall' = lastCall)
         => /\ timeouts' \subseteq timeouts
            /\ Len(sockets') = Len(sockets)
            /\ connectionStatus' = "disconnected"]_vars

\* C2: after disconnect() was called while a reconnection timer was pending,
\* and until the next explicit call, no transport is created.
C2_DisconnectCancelsRetry ==
    [][(lastCall.op = "disconnect" /\ lastCall.timer /\ lastCall' = lastCall)
         => Len(sockets') = Len(sockets)]_vars

\* C3: with maxReconnectAttempts = N, a drop is followed by at most N
\* reconnection attempts, and once exactly N of them have failed no timer is
\* pending and connectionStatus is 'disconnected', for as long as the owner
\* makes no explicit call.
C3_ReconnectBound ==
    CleanRun =>
        /\ retries <= maxReconnectAttempts
        /\ reconnectAttemptsRef <= maxReconnectAttempts
        /\ (retries = maxReconnectAttempts /\ CurrentIs("CLOSED"))
               => (timeouts = {} /\ connectionStatus = "disconnected")

C3_Witness ==
    /\ CleanRun
    /\ retries = maxReconnectAttempts
    /\ CurrentIs("CLOSED")
    /\ timeouts = {}

\* C4: when a reconnection attempt opens after fewer than N failures in a
\* row, connectionStatus is 'connected' and the attempt counter is back at 0.
C4_ResetOnReconnect ==
    (CleanRun /\ CurrentIs("OPEN"))
        => /\ connectionStatus = "connected"
           /\ isConnected
           /\ reconnectAttemptsRef = 0

\* Three closes in a row, the fourth attempt open (Scenario D).
C4_Witness ==
    /\ CleanRun
    /\ Len(sockets) = 4
    /\ retries = 3
    /\ \A t \in 1 .. 3 : sockets[t].readyState = "CLOSED"
    /\ CurrentIs("OPEN")
    /\ reconnectAttemptsRef = 0
    /\ connectionStatus = "connected"

\* C5: once the owner is torn down no reconnection timer is pending, none is
\* scheduled and no transport is created.
C5_NoConnectAfterTeardown ==
    [][phase' = "unmounted"
         => /\ timeouts' = {}
            /\ phase = "unmounted" => Len(sockets') = Len(sockets)]_vars

\* ---------------------------------------------------------------------------
\* The job state machine and the notifier (SpecJob).

UpdateTypes == {"status_update", "processing_update"}

\* C6: while the status is 'completed' or 'error', a status_update or
\* processing_update event changes no field of the job state.
C6_TerminalIgnoresUpdates ==
    [][\A t \in SocketIds, message \in Messages :
          (/\ message.type \in UpdateTypes
           /\ processingState.status \in Terminal
           /\ WsMessage(t, message))
          => processingState' = processingState]_vars

\* C7: while the status is 'running', no status_update delta moves progress
\* backward.
C7_ProgressMonotone ==
    [][\A t \in SocketIds, message \in Messages :
          (/\ message.type = "status_update"
           /\ processingState.status = "running"
           /\ WsMessage(t, message))
          => processingState'.progress >= processingState.progress]_vars

\* C8: once a "complete" (a "failed") notification has been raised, no
\* further one is raised until a start succeeds.
C8_OneNotificationPerRun ==
    [][/\ "complete" \in raised
           => notifications'.complete = notifications.complete
       /\ "failed" \in raised
           => notifications'.failed = notifications.failed]_vars

\* ---------------------------------------------------------------------------
\* Snapshot against stream (SpecSync).

C10_RoundTrip ==
    [][\A i \in DOMAIN requests :
          (LoadResolve(i) /\ requests[i].afterComplete)
            => /\ processingState'.status = "completed"
               /\ processingState'.progress >= processingState.progress]_vars

\* Such a snapshot has just been applied, after deltas had raised progress.
C10_Witness ==
    /\ lastLoad # NoResponse
    /\ lastLoad.afterComplete
    /\ processingState.status = "completed"
    /\ processingState.progress > 0

\* ---------------------------------------------------------------------------
\* The job state machine: transitions and invariants (SpecJob, SpecSync).

\* A field that holds a value.
IsSet(v) == v \notin {Null, Undefined}

\* C11: a processing_complete event with a payload, received while running,
\* merges the payload, sets status 'completed' and leaves end_time set: the
\* payload's when it carries one.
C11_CompleteSetsEndTime ==
    [][\A t \in SocketIds, message \in Messages :
          (/\ message.type = "processing_complete"
           /\ message.data # NoData
           /\ processingState.status = "running"
           /\ WsMessage(t, message))
          => /\ processingState'.status = "completed"
             /\ processingState'.results = message.data.results
             /\ IsSet(processingState'.end_time)
             /\ "end_time" \in DOMAIN message.data
                   => processingState'.end_time = message.data.end_time]_vars

\* C12: from the initial idle state, a status_update that carries progress,
\* total_steps and current_step and no status yields status 'running' with
\* those values merged.
C12_DeltaEntersRunning ==
    [][\A t \in SocketIds, message \in Messages :
          (/\ message.type = "status_update"
           /\ message.data # NoData
           /\ DOMAIN message.data = {"progress", "total_steps", "current_step"}
           /\ processingState = defaultProcessingState
           /\ WsMessage(t, message))
          => processingState' =
                [Merge(defaultProcessingState, message.data)
                    EXCEPT !.status = "running"]]_vars

\* C13: a processing_error event without data moves the job state to status
\* 'error' with a non-empty error message.
C13_ErrorWithoutPayload ==
    [][\A t \in SocketIds, message \in Messages :
          (/\ message.type = "processing_error"
           /\ message.data = NoData
           /\ WsMessage(t, message))
          => /\ processingState'.status = "error"
             /\ IsSet(processingState'.error_message)
             /\ processingState'.error_message # ""]_vars

\* C14: end_time is set if and only if status is 'completed' or 'error'.
C14_EndTimeIffTerminal ==
    IsSet(processingState.end_time) <=> processingState.status \in Terminal

\* C15: error_message is set if and only if status is 'error'.
C15_ErrorMessageIffError ==
    IsSet(processingState.error_message) <=> processingState.status = "error"

\* C16: handling a processing_complete event again, in the state its first
\* handling left, changes nothing; a status 'completed' stays.
C16_CompleteIdempotent ==
    [][\A t \in SocketIds, message \in Messages :
          (message.type = "processing_complete" /\ WsMessage(t, message))
          => LET again == handleWebSocketMessage(Store', message)
             IN /\ again = Store'
                /\ processingState'.status = "completed"
                      => again.processingState.status = "completed"]_vars

\* Two processing_complete events of one run have been handled.
C16_Witness ==
    /\ notifications.complete = 2
    /\ raised = {"complete"}
    /\ processingState.status = "completed"
    /\ processingState.results = "{summaries_generated:5}"

\* C17: when a getStatus response is applied, every field of the job state is
\* the response's, or the default when the response lacks it.
C17_LoadOverwrites ==
    [][\A i \in DOMAIN requests :
          LoadResolve(i) =>
            \A f \in DOMAIN defaultProcessingState :
                processingState'[f] =
                    IF f \in DOMAIN requests[i].response
                    THEN requests[i].response[f]
                    ELSE defaultProcessingState[f]]_vars

\* A response has just been applied over the results and the status of a
\* terminal event handled while it was in flight.
C17_Witness ==
    /\ lastLoad # NoResponse
    /\ "status" \in lastLoad.overtaken
    /\ "results" \notin DOMAIN lastLoad.response
    /\ processingState.results = defaultProcessingState.results
    /\ processingState.status = StatusOf(lastLoad.response)
    /\ processingState.status \notin Terminal

\* C18: an acknowledged startProcessing leaves status 'running', start_time
\* set, end_time and error_message cleared, progress 0 and no logs.
C18_StartResets ==
    [][\A i \in DOMAIN requests :
          StartResolve(i) =>
            /\ processingState'.status = "running"
            /\ IsSet(processingState'.start_time)
            /\ processingState'.end_time = Null
            /\ processingState'.error_message = Null
            /\ processingState'.progress = 0
            /\ processingState'.logs = << >>]_vars

\* A start has just been acknowledged in an error state that had an end
\* time, an error message, progress and logs.
C18_Witness ==
    /\ lastStart # NoResponse
    /\ lastStart.status = "error"
    /\ IsSet(lastStart.end_time)
    /\ IsSet(lastStart.error_message)
    /\ lastStart.progress > 0
    /\ lastStart.logs # << >>
    /\ processingState.status = "running"
    /\ processingState.progress = 0
    /\ processingState.logs = << >>

\* ---------------------------------------------------------------------------
\* One transport at a time (Spec); fan-out to the subscribers (SpecFanout).

LiveTransports ==
    {t \in SocketIds : sockets[t].readyState \in {"CONNECTING", "OPEN"}}

\* C19: at most one transport is connecting or open; connect() called while
\* the transport is open changes nothing of the connection; a transport is
\* created only when no earlier one is left connecting or open.
C19_OneLiveTransport ==
    /\ [](Cardinality(LiveTransports) <= 1)
    /\ [][(Connect /\ CurrentIs("OPEN"))
            => UNCHANGED <<isConnected, connectionStatus, wsError,
                           websocketRef, reconnectTimeoutRef,
                           reconnectAttemptsRef, pingIntervalRef, sockets,
                           timeouts, intervals>>]_vars
    /\ [][Len(sockets') > Len(sockets)
            => \A t \in SocketIds :
                  sockets'[t].readyState \notin {"CONNECTING", "OPEN"}]_vars

\* connect() was called while the first transport was connecting: that one
\* is closing, the second is the only one connecting.
C19_Witness ==
    /\ lastCall.op = "connect"
    /\ lastCall.live
    /\ Len(sockets) = 2
    /\ sockets[1].readyState = "CLOSING"
    /\ sockets[2].readyState = "CONNECTING"
    /\ websocketRef = 2

\* C20: a parsed message is handed to the provider's callback and to every
\* other subscriber registered when it arrives, after the messages each has
\* had before, whichever of them throw.
C20_EverySubscriberCalled ==
    [][\A t \in SocketIds, message \in FanoutMessages :
          WsMessage(t, message)
          => /\ \A c \in Range(messageCallbacks) :
                    inbox'[c] = Append(inbox[c], message)
             /\ \A c \in Subscribers \ Range(messageCallbacks) :
                    inbox'[c] = inbox[c]
             /\ Store' = handleWebSocketMessage(Store, message)]_vars

\* The subscriber that throws was registered first; the one after it has
\* been called with the same two messages, in order.
C20_Witness ==
    /\ messageCallbacks = <<"thrower", "logger">>
    /\ Len(inbox["logger"]) = 2
    /\ inbox["logger"][1] # inbox["logger"][2]
    /\ inbox["thrower"] = inbox["logger"]

\* ---------------------------------------------------------------------------
\* Unparseable frames (SpecFrames).

Malformed(text) == text \notin {JSONstringify(m) : m \in Messages}

\* C21: a frame that is not the text of a JSON value calls no subscriber and
\* leaves the job state, lastMessage and the connection as they were.
C21_MalformedDropped ==
    [][\A t \in SocketIds, text \in Frames :
          (Malformed(text) /\ WsFrame(t, text))
          => UNCHANGED <<inbox, processingState, storeError, notifications,
                         lastMessage, sockets, websocketRef, isConnected,
                         connectionStatus, wsError>>]_vars

\* Frames have been dropped on an open connection after a message reached
\* the subscriber; the message is still the last one.
C21_Witness ==
    /\ dropped = MaxDropped
    /\ CurrentIs("OPEN")
    /\ connectionStatus = "connected"
    /\ messageCallbacks = <<"logger">>
    /\ lastMessage # NoMessage
    /\ inbox["logger"] = <<lastMessage>>

\* ---------------------------------------------------------------------------
\* The error channels (SpecChannels); failing and overlapping calls
\* (SpecCalls).

TransportEvent ==
    \/ \E t \in SocketIds : WsOpen(t)
    \/ \E t \in SocketIds, failed \in BOOLEAN : WsClose(t, failed)
    \/ \E i \in timeouts : TimerFire(i)

JobFailure ==
    \/ \E t \in SocketIds, message \in CallMessages :
          message.type = "processing_error" /\ WsMessage(t, message)
    \/ \E i \in DOMAIN requests : Reject(i)

\* C22: an open, a close, an error or a retry of a transport changes neither
\* the job state nor the store's error; a processing_error event or a failed
\* call changes neither connectionStatus nor the connection's error.
C22_ChannelsIndependent ==
    /\ [][TransportEvent => UNCHANGED <<processingState, storeError>>]_vars
    /\ [][JobFailure
            => UNCHANGED <<connectionStatus, wsError, isConnected>>]_vars

\* The connection has failed and closed, the run has failed, a call has
\* failed: each channel holds its own error.
C22_Witness ==
    /\ connectionStatus = "disconnected"
    /\ wsError = "WebSocket connection error"
    /\ processingState.status = "error"
    /\ processingState.error_message = "IMAP timeout"
    /\ storeError = "Failed to load processing status"

\* C23: when a call fails the store holds an error message, isLoading is
\* false, and the job state and connectionStatus are as they were.
C23_FailedCallKeepsState ==
    [][\A i \in DOMAIN requests :
          Reject(i) =>
            /\ IsSet(storeError') /\ storeError' # ""
            /\ isLoading' = FALSE
            /\ UNCHANGED <<processingState, connectionStatus>>]_vars

\* A stop call has just failed after deltas had moved the job state.
C23_Witness ==
    /\ storeError = "Failed to stop processing"
    /\ ~ isLoading
    /\ requests = << >>
    /\ processingState.progress > 0
    /\ connectionStatus = "connected"

\* C30: isLoading is true if and only if a call is in flight.
C30_LoadingIffInFlight == isLoading <=> requests # << >>

\* ---------------------------------------------------------------------------
\* Deltas during a start (SpecStart).

\* C28: when startProcessing is acknowledged, the progress and the terminal
\* status that deltas have set since it was called are kept.
C28_StartKeepsDeltas ==
    [][\A i \in DOMAIN requests :
          StartResolve(i) =>
            /\ "progress" \in requests[i].overtaken
                  => processingState'.progress >= processingState.progress
            /\ ("status" \in requests[i].overtaken
                    /\ processingState.status \in Terminal)
                  => processingState'.status = processingState.status]_vars

\* ---------------------------------------------------------------------------
\* Heartbeat, replaced transports and timers (Spec); the notifier and the
\* store's connection flag (SpecJob).

\* C24: a heartbeat timer is active exactly while the current transport is
\* open, and it is the one that transport's open event started.
C24_HeartbeatWhileOpen ==
    IF CurrentIs("OPEN")
    THEN intervals = {websocketRef} /\ pingIntervalRef = websocketRef
    ELSE intervals = {}

\* C25: the close of a transport that is not the current one changes neither
\* connectionStatus nor isConnected, stops no heartbeat timer, leaves the
\* attempt counter alone and schedules no reconnection.
C25_ReplacedTransportInert ==
    [][\A t \in SocketIds, failed \in BOOLEAN :
          (t # websocketRef /\ WsClose(t, failed))
          => UNCHANGED <<connectionStatus, isConnected, wsError, intervals,
                         pingIntervalRef, reconnectAttemptsRef, timeouts,
                         reconnectTimeoutRef>>]_vars

\* C26: the pending reconnection timers are at most the one recorded in
\* reconnectTimeoutRef.
C26_OneTimerInRef ==
    /\ Cardinality(timeouts) <= 1
    /\ timeouts \subseteq {reconnectTimeoutRef}

\* C27: a step that raises the 'Processing Complete' notification leaves
\* status 'completed'; one that raises 'Processing Failed' leaves 'error'.
C27_NotificationMatchesState ==
    [][/\ notifications'.complete > notifications.complete
           => processingState'.status = "completed"
       /\ notifications'.failed > notifications.failed
           => processingState'.status = "error"]_vars

\* C29: the store's flag is true exactly when the connection is connected.
C29_FlagMirrorsConnection ==
    isWebSocketConnected <=> connectionStatus = "connected"

=============================================================================
